---- MODULE Spec2Model ----
(***************************************************************************)
(* A model of the claude_connector MCP server: the three authentication    *)
(* middlewares (static API key, OAuth2 session, JWKS-validated JWT), the   *)
(* OAuth2 login/callback handlers and the MCP tool handler behind them.    *)
(*                                                                         *)
(* Strings are sequences of one-character strings, so that strings.Split   *)
(* and the byte-for-byte comparison of the code are computed, not assumed. *)
(***************************************************************************)
EXTENDS Integers, Sequences, FiniteSets, TLC

VARIABLES
    variant,      \* which build of the server runs: "static", "session", "jwks"
    apiKey,       \* API_SECRET_KEY read by main (static build)
    req,          \* per worker: the request it serves and the gin context
    remoteKeys,   \* the JWKS document currently published by the issuer
    fetchLog,     \* history: [ever, keys] of the last successful jwk.Fetch
    cookie,       \* the session cookie "session-name" the browser holds
    now,          \* wall clock
    matched,      \* history: the state a callback matched since the last login
    csv,          \* the file at CSV_FILE_PATH
    issued        \* history: the state of the most recent login's redirect

vars == <<variant, apiKey, req, remoteKeys, fetchLog, cookie, now, matched, csv,
         issued>>

----------------------------------------------------------------------------
(* Bounds of the model *)

NumWorkers == 2      \* requests served in parallel
MaxTime == 2         \* the clock runs 0..MaxTime

Workers == 1..NumWorkers

----------------------------------------------------------------------------
(* Strings *)

SP == " "
Bearer == <<"B", "e", "a", "r", "e", "r">>
LowerBearer == <<"b", "e", "a", "r", "e", "r">>
Basic == <<"B", "a", "s", "i", "c">>
EmptyStr == <<>>

\* Index of the first occurrence of sep in s, 0 when there is none.
IndexOf(s, sep) ==
    IF \E i \in 1..Len(s) : s[i] = sep
    THEN CHOOSE i \in 1..Len(s) : s[i] = sep /\ \A j \in 1..(i - 1) : s[j] # sep
    ELSE 0

RECURSIVE Split(_, _)
\* strings.Split(s, sep) for a one-character separator: n separators give
\* n+1 parts, empty parts included; the empty string gives one empty part.
Split(s, sep) ==
    LET i == IndexOf(s, sep) IN
    IF i = 0 THEN <<s>>
    ELSE <<SubSeq(s, 1, i - 1)>> \o Split(SubSeq(s, i + 1, Len(s)), sep)

----------------------------------------------------------------------------
(* Compact JWTs as strings: header "." claims "." signature.                *)
(* The header segment is two characters, the algorithm and the key id; the  *)
(* claims segment is one character, the expiry; the signature segment names *)
(* the scheme and the key material that produced it, followed by the bytes  *)
(* it was computed over.                                                    *)

DOT == "."
AlgRS == "R"      \* RS256, *jwt.SigningMethodRSA
AlgES == "E"      \* ES256, *jwt.SigningMethodECDSA
AlgHS == "H"      \* HS256, *jwt.SigningMethodHMAC
AlgNone == "N"    \* none
KnownAlgs == {AlgRS, AlgES, AlgHS, AlgNone}
NoKid == "_"      \* the header has no string "kid"
NoExp == "o"      \* the claims have no "exp"
Digits == <<"0", "1", "2", "3", "4", "5", "6", "7", "8", "9">>

\* The time a claims character stands for; -1 when it is no digit.
TimeOf(ch) ==
    IF \E i \in 1..Len(Digits) : Digits[i] = ch
    THEN (CHOOSE i \in 1..Len(Digits) : Digits[i] = ch) - 1
    ELSE -1

\* The bytes of a signature that depend on the signed input; like base64url
\* text they hold no "." of their own.
NotDot(ch) == ch # DOT
Digest(over) == SelectSeq(over, NotDot)

\* What a signer holding key material mat produces for input over with scheme alg.
Sign(alg, mat, over) == <<alg, mat>> \o Digest(over)

SigningInput(hdr, claims) == hdr \o <<DOT>> \o claims

\* A token as the issuer (or a forger holding mat) would serialize it.
MakeJWT(alg, kid, exp, sig) == <<alg, kid, DOT, exp, DOT>> \o sig

SignedJWT(alg, kid, exp, mat) ==
    MakeJWT(alg, kid, exp, Sign(alg, mat, SigningInput(<<alg, kid>>, <<exp>>)))

\* Keys of the JWKS document: key id, key type and key material.
KeyRSA1 == [kid |-> "1", kty |-> "RSA", mat |-> "p"]
KeyEC2 == [kid |-> "2", kty |-> "EC", mat |-> "q"]

\* The documents the issuer may publish over time.
RemoteSets == {{KeyRSA1}, {KeyRSA1, KeyEC2}}

\* The key type each signing method's Verify accepts.
KeyTypeOf(alg) ==
    CASE alg = AlgRS -> "RSA"
      [] alg = AlgES -> "EC"
      [] alg = AlgHS -> "oct"
      [] OTHER -> "unsafe-none"

\* token.Method.Verify(signingString, signature, key)
Verify(alg, input, sig, key) ==
    /\ key.kty = KeyTypeOf(alg)
    /\ sig = Sign(alg, key.mat, input)

\* keySet.LookupKeyID(kid): the keys of the set with that id.
LookupKeyID(keySet, kid) == {k \in keySet : k.kid = kid}

----------------------------------------------------------------------------
(* The gin context of one request *)

NoSession == [state |-> "", token |-> "", expiry |-> 0]

IdleReq ==
    [pc |-> "idle", route |-> "", header |-> EmptyStr,
     status |-> 0, error |-> "", details |-> "", aborted |-> FALSE,
     fetches |-> 0, fetchFailed |-> FALSE, getFailed |-> FALSE, keySet |-> {}, lookups |-> 0,
     verifiedWith |-> {}, ctxSet |-> FALSE, storeReads |-> 0, count |-> 0,
     session |-> NoSession, qstate |-> "", exchanges |-> 0, saved |-> FALSE,
     argKind |-> "", toolRuns |-> 0, rows |-> <<>>, payload |-> EmptyStr,
     examined |-> 0]

\* c.JSON in place of c.AbortWithStatusJSON: the response is written and the
\* handler chain goes on.
JSONWithoutAbort(rq, code, msg, det) ==
    [rq EXCEPT !.status = code, !.error = msg, !.details = det]

\* c.AbortWithStatusJSON(code, gin.H{"error": msg}): writes the response and
\* stops the handler chain.
AbortWithDetails(rq, code, msg, det) ==
    [rq EXCEPT !.status = code, !.error = msg, !.details = det, !.aborted = TRUE]

AbortWithStatusJSON(rq, code, msg) == AbortWithDetails(rq, code, msg, "")

\* The engine's handler loop after the middleware returns: the next handler
\* of the chain runs unless the context was aborted.
Chain(rq) == [rq EXCEPT !.pc = IF rq.aborted THEN "done" ELSE "handler"]

StatusUnauthorized == 401
StatusInternalServerError == 500
StatusOK == 200
StatusTemporaryRedirect == 307

----------------------------------------------------------------------------
(* middleware.AuthMiddleware(apiKey): the static key build *)

AuthHeaderRequired == "Authorization header required"
AuthHeaderFormat == "Invalid Authorization header format. Use 'Bearer <token>'"
InvalidAPIKey == "Invalid API Key"

\* strings.HasPrefix(apiKey, parts[1]) in place of the comparison.
IsPrefix(t, key) == Len(t) <= Len(key) /\ SubSeq(key, 1, Len(t)) = t

StaticAuthPrefixCompare(rq, key) ==
    IF rq.header = EmptyStr
    THEN AbortWithStatusJSON(rq, StatusUnauthorized, AuthHeaderRequired)
    ELSE LET parts == Split(rq.header, SP) IN
         IF Len(parts) # 2 \/ parts[1] # Bearer
         THEN AbortWithStatusJSON(rq, StatusUnauthorized, AuthHeaderFormat)
         ELSE IF ~IsPrefix(parts[2], key)
              THEN AbortWithStatusJSON(rq, StatusUnauthorized, InvalidAPIKey)
              ELSE rq

\* A middleware that looks at the first two parts of the header and ignores
\* any further ones.
StaticAuthFirstTwoParts(rq, key) ==
    IF rq.header = EmptyStr
    THEN AbortWithStatusJSON(rq, StatusUnauthorized, AuthHeaderRequired)
    ELSE LET parts == Split(rq.header, SP) IN
         IF Len(parts) < 2 \/ parts[1] # Bearer
         THEN AbortWithStatusJSON(rq, StatusUnauthorized, AuthHeaderFormat)
         ELSE IF parts[2] # key
              THEN AbortWithStatusJSON(rq, StatusUnauthorized, InvalidAPIKey)
              ELSE rq

StaticAuthMiddleware(rq, key) ==
    IF rq.header = EmptyStr
    THEN AbortWithStatusJSON(rq, StatusUnauthorized, AuthHeaderRequired)
    ELSE LET parts == Split(rq.header, SP) IN
         IF Len(parts) # 2 \/ parts[1] # Bearer
         THEN AbortWithStatusJSON(rq, StatusUnauthorized, AuthHeaderFormat)
         ELSE IF parts[2] # key
              THEN AbortWithStatusJSON(rq, StatusUnauthorized, InvalidAPIKey)
              ELSE rq

\* The first position at which two strings of one length differ.
FirstDifference(a, b) ==
    CHOOSE i \in 1..Len(a) : a[i] # b[i] /\ \A j \in 1..(i - 1) : a[j] = b[j]

\* parts[1] != apiKey: the numbers of bytes of the token the comparison may
\* look at.  Strings of different lengths are unequal without a byte being
\* read; for equal lengths the runtime reads bytes until the answer is
\* known and may stop at the first that differs.
BytesExamined(token, key) ==
    IF Len(token) # Len(key) THEN {0}
    ELSE IF token = key THEN {Len(key)}
    ELSE FirstDifference(token, key)..Len(key)

\* The bytes the middleware may examine for a header: none unless the
\* comparison with the key is reached.
CompareCost(header, key) ==
    LET parts == Split(header, SP) IN
    IF header = EmptyStr \/ Len(parts) # 2 \/ parts[1] # Bearer THEN {0}
    ELSE BytesExamined(parts[2], key)

----------------------------------------------------------------------------
(* middleware.AuthMiddleware(): the JWKS build *)

FailedToFetchJWKS == "Failed to fetch JWKS"
InvalidToken == "Invalid token"

UnexpectedMethod == "unexpected signing method"
KidHeaderNotFound == "kid header not found"
KidNotFound == "key with kid not found"

\* The key function without the check of token.Method.
KeyFuncAnyMethod(alg, kid, keySet) ==
    IF kid = NoKid
    THEN [ok |-> FALSE, err |-> KidHeaderNotFound, keys |-> {}, lookups |-> 0]
    ELSE LET keys == LookupKeyID(keySet, kid) IN
         IF keys = {}
         THEN [ok |-> FALSE, err |-> KidNotFound, keys |-> {}, lookups |-> 1]
         ELSE [ok |-> TRUE, err |-> "", keys |-> keys, lookups |-> 1]

\* A key function that, for a token without a key id, hands over every key
\* of the set.
KeyFuncTryAllKeys(alg, kid, keySet) ==
    IF alg # AlgRS
    THEN [ok |-> FALSE, err |-> UnexpectedMethod, keys |-> {}, lookups |-> 0]
    ELSE IF kid = NoKid
    THEN [ok |-> keySet # {}, err |-> KidHeaderNotFound, keys |-> keySet,
          lookups |-> 0]
    ELSE LET keys == LookupKeyID(keySet, kid) IN
         IF keys = {}
         THEN [ok |-> FALSE, err |-> KidNotFound, keys |-> {}, lookups |-> 1]
         ELSE [ok |-> TRUE, err |-> "", keys |-> keys, lookups |-> 1]

\* The key function handed to jwt.Parse.
KeyFunc(alg, kid, keySet) ==
    IF alg # AlgRS
    THEN [ok |-> FALSE, err |-> UnexpectedMethod, keys |-> {}, lookups |-> 0]
    ELSE IF kid = NoKid
    THEN [ok |-> FALSE, err |-> KidHeaderNotFound, keys |-> {}, lookups |-> 0]
    ELSE LET keys == LookupKeyID(keySet, kid) IN
         IF keys = {}
         THEN [ok |-> FALSE, err |-> KidNotFound, keys |-> {}, lookups |-> 1]
         ELSE [ok |-> TRUE, err |-> "", keys |-> keys, lookups |-> 1]

\* A parse that verifies the signature and leaves the claims unvalidated.
JwtParseSkipClaims(tokenString, keySet, t) ==
    LET parts == Split(tokenString, DOT)
        bad(msg, n) == [valid |-> FALSE, err |-> msg, lookups |-> n, keys |-> {}]
    IN
    IF Len(parts) # 3 THEN bad("token contains an invalid number of segments", 0)
    ELSE IF Len(parts[1]) # 2 \/ Len(parts[2]) # 1
              \/ (parts[2][1] # NoExp /\ TimeOf(parts[2][1]) < 0)
    THEN bad("token is malformed", 0)
    ELSE IF parts[1][1] \notin KnownAlgs
    THEN bad("signing method (alg) is unavailable", 0)
    ELSE LET alg == parts[1][1]
             kf == KeyFunc(alg, parts[1][2], keySet)
             input == SigningInput(parts[1], parts[2])
         IN
         IF ~kf.ok THEN bad(kf.err, kf.lookups)
         ELSE IF ~(\E k \in kf.keys : Verify(alg, input, parts[3], k))
         THEN bad("signature is invalid", kf.lookups)
         ELSE [valid |-> TRUE, err |-> "", lookups |-> kf.lookups,
               keys |-> {k \in kf.keys : Verify(alg, input, parts[3], k)}]

\* jwt.Parse(tokenString, keyFunc) at time t: the segments are split and
\* decoded, the signing method is looked up from the header's alg, the key
\* function is asked for the key, the signature is verified with it and the
\* time claims are validated.
JwtParse(tokenString, keySet, t) ==
    LET parts == Split(tokenString, DOT)
        bad(msg, n) == [valid |-> FALSE, err |-> msg, lookups |-> n, keys |-> {}]
    IN
    IF Len(parts) # 3 THEN bad("token contains an invalid number of segments", 0)
    ELSE IF Len(parts[1]) # 2 \/ Len(parts[2]) # 1
              \/ (parts[2][1] # NoExp /\ TimeOf(parts[2][1]) < 0)
    THEN bad("token is malformed", 0)
    ELSE IF parts[1][1] \notin KnownAlgs
    THEN bad("signing method (alg) is unavailable", 0)
    ELSE LET alg == parts[1][1]
             kf == KeyFunc(alg, parts[1][2], keySet)
             input == SigningInput(parts[1], parts[2])
         IN
         IF ~kf.ok THEN bad(kf.err, kf.lookups)
         ELSE IF ~(\E k \in kf.keys : Verify(alg, input, parts[3], k))
         THEN bad("signature is invalid", kf.lookups)
         ELSE IF parts[2][1] # NoExp /\ ~(t < TimeOf(parts[2][1]))
         THEN bad("token is expired", kf.lookups)
         ELSE [valid |-> TRUE, err |-> "", lookups |-> kf.lookups,
               keys |-> {k \in kf.keys : Verify(alg, input, parts[3], k)}]

\* Lines 16-28: the header checks that precede the fetch.
\* A middleware that fetches the key document first and looks at the header
\* afterwards.
JwksHeaderCheckAfterFetch(rq) ==
    LET fetched == [rq EXCEPT !.fetches = @ + 1]
        parts == Split(rq.header, SP) IN
    IF rq.header = EmptyStr
    THEN AbortWithStatusJSON(fetched, StatusUnauthorized, AuthHeaderRequired)
    ELSE IF Len(parts) # 2 \/ parts[1] # Bearer
    THEN AbortWithStatusJSON(fetched, StatusUnauthorized, AuthHeaderFormat)
    ELSE rq

\* A header check without the test for the missing header.
JwksHeaderCheckSplitOnly(rq) ==
    LET parts == Split(rq.header, SP) IN
    IF Len(parts) # 2 \/ parts[1] # Bearer
    THEN AbortWithStatusJSON(rq, StatusUnauthorized, AuthHeaderFormat)
    ELSE rq

JwksHeaderCheck(rq) ==
    IF rq.header = EmptyStr
    THEN AbortWithStatusJSON(rq, StatusUnauthorized, AuthHeaderRequired)
    ELSE LET parts == Split(rq.header, SP) IN
         IF Len(parts) # 2 \/ parts[1] # Bearer
         THEN AbortWithStatusJSON(rq, StatusUnauthorized, AuthHeaderFormat)
         ELSE rq

\* The fetch error answered like a bad token.
FetchErrorAsInvalidToken(rq) ==
    AbortWithStatusJSON([rq EXCEPT !.fetchFailed = TRUE],
                        StatusUnauthorized, InvalidToken)

\* Lines 30-34, the fetch failed.
JwksFetchError(rq) ==
    AbortWithStatusJSON([rq EXCEPT !.fetchFailed = TRUE],
                        StatusInternalServerError, FailedToFetchJWKS)

\* Validation that fetches the document a second time when the key id is
\* not in the set it just fetched.
JwksValidateRefetchOnMiss(rq, keySet, t) ==
    LET tokenString == Split(rq.header, SP)[2]
        res == JwtParse(tokenString, keySet, t)
        seen == [rq EXCEPT !.keySet = keySet, !.lookups = @ + res.lookups,
                           !.verifiedWith = res.keys,
                           !.fetches = IF res.err = KidNotFound THEN @ + 1 ELSE @]
    IN
    IF ~res.valid
    THEN AbortWithDetails(seen, StatusUnauthorized, InvalidToken, res.err)
    ELSE seen

\* Lines 36-65, with the key set the fetch returned.
JwksValidate(rq, keySet, t) ==
    LET tokenString == Split(rq.header, SP)[2]
        res == JwtParse(tokenString, keySet, t)
        seen == [rq EXCEPT !.keySet = keySet, !.lookups = @ + res.lookups,
                           !.verifiedWith = res.keys]
    IN
    IF ~res.valid
    THEN AbortWithDetails(seen, StatusUnauthorized, InvalidToken, res.err)
    ELSE seen

----------------------------------------------------------------------------
(* middleware.AuthMiddleware(store): the session build *)

FailedToGetSession == "Failed to get session"
NotAuthenticated == "Not authenticated or token expired. Please visit /auth/login"

\* oauth2's expiryDelta: a token counts as expired this long before its expiry
\* (10 seconds, which is the unit of the clock).
ExpiryDelta == 1

\* A validity test that looks at the access token only.
TokenPresent(sess, t) == sess.token # ""

\* (*oauth2.Token).Valid() at time t: an access token is set and its expiry,
\* when it has one (expiry 0 is the zero time), less expiryDelta is not
\* before t.
TokenValid(sess, t) ==
    /\ sess.token # ""
    /\ (sess.expiry = 0 \/ ~(sess.expiry - ExpiryDelta < t))

\* A middleware that renews an expired token and saves the session.
SessionAuthRefreshes(rq, getOK, t) ==
    IF ~getOK
    THEN AbortWithStatusJSON([rq EXCEPT !.getFailed = TRUE],
                             StatusInternalServerError, FailedToGetSession)
    ELSE IF rq.session.token = ""
    THEN AbortWithStatusJSON(rq, StatusUnauthorized, NotAuthenticated)
    ELSE IF ~TokenValid(rq.session, t)
    THEN [rq EXCEPT !.ctxSet = TRUE, !.saved = TRUE,
                    !.session.expiry = t + ExpiryDelta]
    ELSE [rq EXCEPT !.ctxSet = TRUE]

\* getOK: whether store.Get could decode the request's cookie.
SessionAuthMiddleware(rq, getOK, t) ==
    IF ~getOK
    THEN AbortWithStatusJSON([rq EXCEPT !.getFailed = TRUE],
                             StatusInternalServerError, FailedToGetSession)
    ELSE IF ~TokenValid(rq.session, t)
    THEN AbortWithStatusJSON(rq, StatusUnauthorized, NotAuthenticated)
    ELSE [rq EXCEPT !.ctxSet = TRUE]

----------------------------------------------------------------------------
(* handlers.HandleLogin and handlers.HandleCallback *)

InvalidState == "Invalid state"
FailedToExchange == "Failed to exchange token"
FailedToSave == "Failed to save session"
FailedToGenerate == "Failed to generate state"
Authenticated == "Successfully authenticated"

\* The values base64(rand.Read(32 bytes)) may take.
StateValues == {"s1", "s2"}

\* What a caller may put in the state query parameter ("" when absent).
QueryStates == StateValues \cup {""}

\* A login that puts a state in the redirect URL without storing it.
HandleLoginStateNotStored(rq, getOK, state, outcome) ==
    IF ~getOK
    THEN AbortWithStatusJSON([rq EXCEPT !.getFailed = TRUE],
                             StatusInternalServerError, FailedToGetSession)
    ELSE IF outcome = "rand_failed"
    THEN AbortWithStatusJSON(rq, StatusInternalServerError, FailedToGenerate)
    ELSE IF outcome = "save_failed"
    THEN AbortWithStatusJSON(rq, StatusInternalServerError, FailedToSave)
    ELSE [rq EXCEPT !.saved = TRUE, !.status = StatusTemporaryRedirect,
                    !.qstate = state]

\* A login that redirects without looking at the result of session.Save.
HandleLoginIgnoresSave(rq, getOK, state, outcome) ==
    IF ~getOK
    THEN AbortWithStatusJSON([rq EXCEPT !.getFailed = TRUE],
                             StatusInternalServerError, FailedToGetSession)
    ELSE IF outcome = "rand_failed"
    THEN AbortWithStatusJSON(rq, StatusInternalServerError, FailedToGenerate)
    ELSE [rq EXCEPT !.session.state = state, !.saved = (outcome # "save_failed"),
                    !.status = StatusTemporaryRedirect, !.qstate = state]

\* HandleLogin up to the redirect. outcome: "ok", or the step that failed.
HandleLogin(rq, getOK, state, outcome) ==
    IF ~getOK
    THEN AbortWithStatusJSON([rq EXCEPT !.getFailed = TRUE],
                             StatusInternalServerError, FailedToGetSession)
    ELSE IF outcome = "rand_failed"
    THEN AbortWithStatusJSON(rq, StatusInternalServerError, FailedToGenerate)
    ELSE LET withState == [rq EXCEPT !.session.state = state] IN
         IF outcome = "save_failed"
         THEN AbortWithStatusJSON(withState, StatusInternalServerError, FailedToSave)
         ELSE [withState EXCEPT !.saved = TRUE, !.status = StatusTemporaryRedirect,
                                !.qstate = state]

\* The comparison made only when the session holds a state.
CallbackCheckSkipsNil(rq, getOK) ==
    IF ~getOK
    THEN AbortWithStatusJSON([rq EXCEPT !.getFailed = TRUE],
                             StatusInternalServerError, FailedToGetSession)
    ELSE IF rq.session.state # "" /\ rq.session.state # rq.qstate
    THEN AbortWithStatusJSON(rq, StatusUnauthorized, InvalidState)
    ELSE rq

\* A check that compares the stored state with the query and takes a
\* session without a state for one with the empty state.
CallbackCheckCompareOnly(rq, getOK) ==
    IF ~getOK
    THEN AbortWithStatusJSON([rq EXCEPT !.getFailed = TRUE],
                             StatusInternalServerError, FailedToGetSession)
    ELSE IF rq.session.state # rq.qstate
    THEN AbortWithStatusJSON(rq, StatusUnauthorized, InvalidState)
    ELSE rq

\* HandleCallback, lines 174-185: the session is read and the state compared.
\* The stored state is nil when the session has none.
CallbackCheck(rq, getOK) ==
    IF ~getOK
    THEN AbortWithStatusJSON([rq EXCEPT !.getFailed = TRUE],
                             StatusInternalServerError, FailedToGetSession)
    ELSE IF rq.session.state = "" \/ rq.session.state # rq.qstate
    THEN AbortWithStatusJSON(rq, StatusUnauthorized, InvalidState)
    ELSE rq

\* A callback that clears the used state and saves the session before it looks
\* at the result of the exchange.
CallbackFinishSavesFirst(rq, outcome, expiry) ==
    LET cleared == [rq EXCEPT !.session.state = "", !.saved = TRUE] IN
    IF outcome = "exchange_failed"
    THEN AbortWithStatusJSON(cleared, StatusInternalServerError, FailedToExchange)
    ELSE [cleared EXCEPT !.session.token = "tok", !.session.expiry = expiry,
                         !.status = StatusOK, !.error = Authenticated]

\* A callback that stores a token and saves the session whatever the
\* exchange returned.
CallbackFinishStoresAnyway(rq, outcome, expiry) ==
    LET withToken == [rq EXCEPT !.session.token = "tok",
                                !.session.expiry = expiry, !.saved = TRUE] IN
    IF outcome = "exchange_failed"
    THEN AbortWithStatusJSON(withToken, StatusInternalServerError, FailedToExchange)
    ELSE [withToken EXCEPT !.status = StatusOK, !.error = Authenticated]

\* A callback that answers a failed exchange like a failed state check.
CallbackFinishUnauthorized(rq, outcome, expiry) ==
    IF outcome = "exchange_failed"
    THEN AbortWithStatusJSON(rq, StatusUnauthorized, FailedToExchange)
    ELSE LET withToken == [rq EXCEPT !.session.token = "tok",
                                     !.session.expiry = expiry] IN
         IF outcome = "save_failed"
         THEN AbortWithStatusJSON(withToken, StatusInternalServerError, FailedToSave)
         ELSE [withToken EXCEPT !.saved = TRUE, !.status = StatusOK,
                                !.error = Authenticated]

\* HandleCallback, lines 187-201: conf.Exchange has returned.
CallbackFinish(rq, outcome, expiry) ==
    IF outcome = "exchange_failed"
    THEN AbortWithStatusJSON(rq, StatusInternalServerError, FailedToExchange)
    ELSE LET withToken == [rq EXCEPT !.session.token = "tok",
                                     !.session.expiry = expiry] IN
         IF outcome = "save_failed"
         THEN AbortWithStatusJSON(withToken, StatusInternalServerError, FailedToSave)
         ELSE [withToken EXCEPT !.saved = TRUE, !.status = StatusOK,
                                !.error = Authenticated]

----------------------------------------------------------------------------
(* handlers.MCPHandler: the tool function of get_last_n_records *)

CountError == "Error: count must be a positive integer."

\* The status line of a response is written once: a handler that answers
\* after an earlier one already did leaves the status as it is.
WriteStatus(rq, code) == IF rq.status = 0 THEN code ELSE rq.status

ErrorPrefix == "Error: failed to get records: "
NoRecordsFound == "No records found."
OpenError == "could not open csv file"
ReadError == "could not read csv file"

\* A file: whether os.Open succeeds, and its lines as lists of fields.
CsvOf(lines) == [exists |-> TRUE, lines |-> lines]
NoFile == [exists |-> FALSE, lines |-> <<>>]

\* csv.Reader.ReadAll: every line as a record, or an error when a line has
\* not the number of fields of the first one.
ReadAll(lines) ==
    IF \E i \in DOMAIN lines : Len(lines[i]) # Len(lines[1])
    THEN [err |-> TRUE, records |-> <<>>]
    ELSE [err |-> FALSE, records |-> lines]

\* A record store that returns the first n records.
GetFirstNRecords(file, n) ==
    IF ~file.exists THEN [err |-> OpenError, records |-> <<>>]
    ELSE LET read == ReadAll(file.lines) IN
         IF read.err THEN [err |-> ReadError, records |-> <<>>]
         ELSE LET totalRecords == Len(read.records) IN
              [err |-> "",
               records |-> SubSeq(read.records, 1,
                                  IF n < totalRecords THEN n ELSE totalRecords)]

\* A record store whose start index is one too far.
GetLastNRecordsFromNext(file, n) ==
    IF ~file.exists THEN [err |-> OpenError, records |-> <<>>]
    ELSE LET read == ReadAll(file.lines) IN
         IF read.err THEN [err |-> ReadError, records |-> <<>>]
         ELSE LET totalRecords == Len(read.records) IN
              IF totalRecords = 0 THEN [err |-> "", records |-> <<>>]
              ELSE LET startIndex == IF totalRecords - n < 0 THEN 0
                                     ELSE totalRecords - n + 1 IN
                   [err |-> "",
                    records |-> SubSeq(read.records, startIndex + 1, totalRecords)]

\* tools.GetLastNRecords(filePath, n) on the given file.
GetLastNRecords(file, n) ==
    IF ~file.exists THEN [err |-> OpenError, records |-> <<>>]
    ELSE LET read == ReadAll(file.lines) IN
         IF read.err THEN [err |-> ReadError, records |-> <<>>]
         ELSE LET totalRecords == Len(read.records) IN
              IF totalRecords = 0 THEN [err |-> "", records |-> <<>>]
              ELSE LET startIndex == IF totalRecords - n < 0 THEN 0
                                     ELSE totalRecords - n IN
                   [err |-> "",
                    records |-> SubSeq(read.records, startIndex + 1, totalRecords)]

COMMA == ","
NEWLINE == "\n"

\* An inner loop that writes a comma after every value.
RECURSIVE WriteRecordCommaAfterEach(_, _)
WriteRecordCommaAfterEach(record, j) ==
    IF j > Len(record) THEN EmptyStr
    ELSE record[j] \o <<COMMA>> \o WriteRecordCommaAfterEach(record, j + 1)

\* The inner loop of the tool function: the values of one record, a comma
\* after each but the last.
RECURSIVE WriteRecord(_, _)
WriteRecord(record, j) ==
    IF j > Len(record) THEN EmptyStr
    ELSE record[j] \o (IF j < Len(record) THEN <<COMMA>> ELSE EmptyStr)
                   \o WriteRecord(record, j + 1)

\* The outer loop: the records, a newline after each but the last.
RECURSIVE WriteRecords(_, _)
WriteRecords(records, i) ==
    IF i > Len(records) THEN EmptyStr
    ELSE WriteRecord(records[i], 1)
             \o (IF i < Len(records) THEN <<NEWLINE>> ELSE EmptyStr)
             \o WriteRecords(records, i + 1)

\* A tool function that refuses negative counts only.
ToolCallAllowsZero(rq, n, file) ==
    LET ran == [rq EXCEPT !.status = WriteStatus(rq, StatusOK), !.count = n,
                          !.toolRuns = @ + 1] IN
    IF n < 0
    THEN [ran EXCEPT !.error = CountError]
    ELSE LET got == GetLastNRecords(file, n)
             read == [ran EXCEPT !.storeReads = @ + 1] IN
         IF got.err # "" THEN [read EXCEPT !.error = ErrorPrefix \o got.err]
         ELSE IF Len(got.records) = 0 THEN [read EXCEPT !.error = NoRecordsFound]
         ELSE [read EXCEPT !.rows = got.records,
                           !.payload = WriteRecords(got.records, 1)]

\* A tool function without the test for an empty result.
ToolCallNoEmptyCase(rq, n, file) ==
    LET ran == [rq EXCEPT !.status = WriteStatus(rq, StatusOK), !.count = n,
                          !.toolRuns = @ + 1] IN
    IF n <= 0
    THEN [ran EXCEPT !.error = CountError]
    ELSE LET got == GetLastNRecords(file, n)
             read == [ran EXCEPT !.storeReads = @ + 1] IN
         IF got.err # "" THEN [read EXCEPT !.error = ErrorPrefix \o got.err]
         ELSE [read EXCEPT !.rows = got.records,
                           !.payload = WriteRecords(got.records, 1)]

\* A tool function that returns the record store's error to the server as
\* a failure of the call.
ToolCallEscalates(rq, n, file) ==
    LET ran == [rq EXCEPT !.count = n, !.toolRuns = @ + 1] IN
    IF n <= 0
    THEN [ran EXCEPT !.status = WriteStatus(rq, StatusOK), !.error = CountError]
    ELSE LET got == GetLastNRecords(file, n)
             read == [ran EXCEPT !.storeReads = @ + 1] IN
         IF got.err # ""
         THEN [read EXCEPT !.status = WriteStatus(rq, StatusInternalServerError),
                           !.error = got.err]
         ELSE IF Len(got.records) = 0
         THEN [read EXCEPT !.status = WriteStatus(rq, StatusOK),
                           !.error = NoRecordsFound]
         ELSE [read EXCEPT !.status = WriteStatus(rq, StatusOK),
                           !.rows = got.records,
                           !.payload = WriteRecords(got.records, 1)]

\* The tool function for a call with the given count on the given file.  The
\* text of the result is in error when it is a fixed message and in payload
\* when it is the records.
ToolCall(rq, n, file) ==
    LET ran == [rq EXCEPT !.status = WriteStatus(rq, StatusOK), !.count = n,
                          !.toolRuns = @ + 1] IN
    IF n <= 0
    THEN [ran EXCEPT !.error = CountError]
    ELSE LET got == GetLastNRecords(file, n)
             read == [ran EXCEPT !.storeReads = @ + 1] IN
         IF got.err # "" THEN [read EXCEPT !.error = ErrorPrefix \o got.err]
         ELSE IF Len(got.records) = 0 THEN [read EXCEPT !.error = NoRecordsFound]
         ELSE [read EXCEPT !.rows = got.records,
                           !.payload = WriteRecords(got.records, 1)]

\* The "count" member of the arguments of a tools/call as the client sent it:
\* absent, a JSON integer, a JSON string or a JSON number with a fraction.
IntArg(n) == [kind |-> "int", val |-> n]
NonIntegerKinds == {"string", "fraction"}

\* A decoding that takes an absent count for 1.
DecodeCountDefaultsToOne(arg) ==
    IF arg.kind = "missing" THEN [ok |-> TRUE, count |-> 1]
    ELSE IF arg.kind = "int" THEN [ok |-> TRUE, count |-> arg.val]
    ELSE [ok |-> FALSE, count |-> 0]

\* json.Unmarshal of the arguments into GetLastNRecordsArgs, whose Count is
\* an int: an absent member leaves the zero value, an integer is stored, any
\* other value is an UnmarshalTypeError.
DecodeCount(arg) ==
    IF arg.kind = "missing" THEN [ok |-> TRUE, count |-> 0]
    ELSE IF arg.kind = "int" THEN [ok |-> TRUE, count |-> arg.val]
    ELSE [ok |-> FALSE, count |-> 0]

UnmarshalTypeError == "json: cannot unmarshal into Go struct field GetLastNRecordsArgs.count of type int"

\* The registered tool as the server runs it: the arguments are decoded into
\* the argument struct and the tool function is called with them; when they
\* do not decode, the tool function is not called and the decoder's error is
\* the result.
RegisteredTool(rq, arg, file) ==
    LET dec == DecodeCount(arg)
        called == [rq EXCEPT !.argKind = arg.kind] IN
    IF ~dec.ok
    THEN [called EXCEPT !.status = WriteStatus(rq, StatusOK),
                        !.error = UnmarshalTypeError]
    ELSE ToolCall(called, dec.count, file)

----------------------------------------------------------------------------
(* Inputs *)

MaxTokLen == 2       \* longest API key or presented static token
MaxCount == 2        \* largest count argument of a tool call

MaxRows == 3         \* most lines of a generated csv file

\* Line i of the generated files: its number and a value.
Row(i) == << <<Digits[i]>>, <<"v">> >>
Records(t) == [i \in 1..t |-> Row(i)]

\* The files the server may find: absent, with 0..MaxRows lines, with a line
\* of another width, with one-field lines and an empty field, and one of ten
\* lines.
CsvFiles ==
    {NoFile} \cup {CsvOf(Records(t)) : t \in 0..MaxRows}
        \cup {CsvOf(<<Row(1), <<<<"2">>>> >>),
              CsvOf(<< <<EmptyStr>>, <<<<"a", "b">>>> >>),
              CsvOf(Records(10))}

CountArgs ==
    {[kind |-> k, val |-> 0] : k \in {"missing"} \cup NonIntegerKinds}
        \cup {IntArg(n) : n \in -1..MaxCount}

TokChars == {"a", "b"}

RECURSIVE StringsUpTo(_)
StringsUpTo(n) ==
    IF n = 0 THEN {EmptyStr}
    ELSE LET S == StringsUpTo(n - 1) IN
         S \cup {Append(x, ch) : x \in {y \in S : Len(y) = n - 1}, ch \in TokChars}

\* A longer key, "abc123".
ExampleKey == <<"a", "b", "c", "1", "2", "3">>

StaticTokens == StringsUpTo(MaxTokLen) \cup {ExampleKey}

\* The keys of a main that starts with any API_SECRET_KEY, the empty one
\* included.
SecretsUnchecked == StaticTokens

\* main refuses to start with an empty API_SECRET_KEY.
Secrets == {t \in StaticTokens : t # EmptyStr}

\* Authorization headers that are not "Bearer <token>", built around token t.
MalformedHeaders(t) ==
    { Bearer \o t,
      LowerBearer \o <<SP>> \o t,
      Basic \o <<SP>> \o t,
      Bearer \o <<SP, SP>> \o t,
      Bearer \o <<SP>> \o t \o <<SP>>,
      <<SP>> \o Bearer \o <<SP>> \o t,
      t }

BearerHeader(t) == Bearer \o <<SP>> \o t

StaticHeaders(key) ==
    {EmptyStr} \cup {BearerHeader(t) : t \in StaticTokens} \cup MalformedHeaders(key)

\* Tokens presented to the JWKS build: issued by the issuer with one of its
\* keys, or forged.
GoodRS == SignedJWT(AlgRS, "1", NoExp, "p")
JwtTokens ==
    { GoodRS,
      SignedJWT(AlgRS, "1", "1", "p"),           \* expires at time 1
      SignedJWT(AlgRS, "1", NoExp, "r"),         \* kid 1, signed by another key
      SignedJWT(AlgRS, "2", NoExp, "q"),         \* RS256 naming the EC key
      SignedJWT(AlgES, "2", NoExp, "q"),         \* ES256 by the EC key
      SignedJWT(AlgHS, "1", NoExp, "p"),         \* HS256 keyed with a public key
      MakeJWT(AlgNone, "1", NoExp, EmptyStr),    \* alg none, no signature
      SignedJWT(AlgRS, NoKid, NoExp, "p"),       \* no kid
      MakeJWT(AlgRS, "1", NoExp,                 \* claims changed after signing
              Sign(AlgRS, "p", SigningInput(<<AlgRS, "1">>, <<"1">>))),
      <<"a", DOT, "b">> }                       \* not three segments

JwksHeaders ==
    {EmptyStr} \cup {BearerHeader(t) : t \in JwtTokens} \cup MalformedHeaders(GoodRS)

----------------------------------------------------------------------------
(* State machine *)

Variants == {"static", "session", "jwks"}

Init ==
    /\ variant \in Variants
    /\ apiKey \in (IF variant = "static" THEN Secrets ELSE {EmptyStr})
    /\ req = [w \in Workers |-> IdleReq]
    /\ remoteKeys \in (IF variant = "jwks" THEN RemoteSets ELSE {{}})
    /\ fetchLog = [ever |-> FALSE, keys |-> {}]
    /\ cookie = NoSession
    /\ now = 0
    /\ matched = ""
    /\ issued = ""
    /\ csv \in (IF variant = "static" THEN CsvFiles ELSE {CsvOf(Records(1))})

\* No worker has a written response that is not yet released.
NoneDone == \A w \in Workers : req[w].pc # "done"

\* A request that passed its middleware runs its handler, and a worker that
\* has written its response is released, before anything else is looked at:
\* the handler and the release touch nothing another request reads.
Quiet == \A w \in Workers : req[w].pc \notin {"done", "handler"}

Free(w) == req[w].pc = "idle"

\* A request is taken by the first worker that is not serving one.
Accept(w) == Quiet /\ Free(w) /\ \A v \in Workers : v < w => ~Free(v)

\* POST /mcp on the static key build.
StaticRequest(w, h) ==
    /\ variant = "static"
    /\ Accept(w)
    /\ \E k \in CompareCost(h, apiKey) :
           req' = [req EXCEPT ![w] =
               Chain(StaticAuthMiddleware(
                   [IdleReq EXCEPT !.route = "mcp", !.header = h,
                                   !.examined = k], apiKey))]
    /\ UNCHANGED <<variant, apiKey, remoteKeys, fetchLog, cookie, now, matched, csv, issued>>

\* POST /mcp on the JWKS build: the header checks, then jwk.Fetch is called.
JwksRequest(w, h) ==
    /\ variant = "jwks"
    /\ Accept(w)
    /\ LET rq == JwksHeaderCheck([IdleReq EXCEPT !.route = "mcp", !.header = h]) IN
       req' = [req EXCEPT ![w] =
           IF rq.aborted THEN Chain(rq)
           ELSE [rq EXCEPT !.pc = "fetch", !.fetches = @ + 1]]
    /\ UNCHANGED <<variant, apiKey, remoteKeys, fetchLog, cookie, now, matched, csv, issued>>

\* jwk.Fetch returns, with the published document or with an error.
JwksFetchReturn(w, ok) ==
    /\ Quiet
    /\ req[w].pc = "fetch"
    /\ req' = [req EXCEPT ![w] =
           Chain(IF ok THEN JwksValidate(req[w], remoteKeys, now)
                 ELSE JwksFetchError(req[w]))]
    /\ fetchLog' = IF ok THEN [ever |-> TRUE, keys |-> remoteKeys] ELSE fetchLog
    /\ UNCHANGED <<variant, apiKey, remoteKeys, cookie, now, matched, csv, issued>>

\* POST /mcp on the session build.
SessionRequest(w, getOK) ==
    /\ variant = "session"
    /\ Accept(w)
    /\ LET rq == SessionAuthMiddleware([IdleReq EXCEPT !.route = "mcp",
                                                       !.session = cookie],
                                       getOK, now) IN
       /\ req' = [req EXCEPT ![w] = Chain(rq)]
       /\ cookie' = IF rq.saved THEN rq.session ELSE cookie
    /\ UNCHANGED <<variant, apiKey, remoteKeys, fetchLog, now, matched, csv, issued>>

\* GET /auth/login.
LoginRequest(w, getOK, state, outcome) ==
    /\ variant = "session"
    /\ Accept(w)
    /\ LET rq == HandleLogin([IdleReq EXCEPT !.route = "login",
                                             !.session = cookie],
                             getOK, state, outcome) IN
       /\ req' = [req EXCEPT ![w] = [rq EXCEPT !.pc = "done"]]
       /\ cookie' = IF rq.saved THEN rq.session ELSE cookie
       /\ matched' = IF rq.saved THEN "" ELSE matched
       /\ issued' = IF rq.saved THEN rq.qstate ELSE issued
    /\ UNCHANGED <<variant, apiKey, remoteKeys, fetchLog, now, csv>>

\* GET /auth/callback?state=...: up to the call of conf.Exchange.
CallbackRequest(w, getOK, qstate) ==
    /\ variant = "session"
    /\ Accept(w)
    /\ LET rq == CallbackCheck([IdleReq EXCEPT !.route = "callback",
                                               !.session = cookie,
                                               !.qstate = qstate], getOK) IN
       /\ req' = [req EXCEPT ![w] =
              IF rq.aborted THEN [rq EXCEPT !.pc = "done"]
              ELSE [rq EXCEPT !.pc = "exchange", !.exchanges = @ + 1]]
       /\ cookie' = IF rq.saved THEN rq.session ELSE cookie
       /\ matched' = IF rq.aborted THEN matched ELSE rq.qstate
    /\ UNCHANGED <<variant, apiKey, remoteKeys, fetchLog, now, csv, issued>>

\* conf.Exchange returns; on success the token is stored and the session saved.
ExchangeReturn(w, outcome, expiry) ==
    /\ Quiet
    /\ req[w].pc = "exchange"
    /\ LET rq == CallbackFinish(req[w], outcome, expiry) IN
       /\ req' = [req EXCEPT ![w] = [rq EXCEPT !.pc = "done"]]
       /\ cookie' = IF rq.saved THEN rq.session
                    ELSE cookie
    /\ UNCHANGED <<variant, apiKey, remoteKeys, fetchLog, now, matched, csv, issued>>

\* The MCP handler runs a tools/call of get_last_n_records.
McpHandler(w, arg) ==
    /\ NoneDone
    /\ req[w].pc = "handler"
    /\ req' = [req EXCEPT ![w] = [RegisteredTool(req[w], arg, csv) EXCEPT !.pc = "done"]]
    /\ UNCHANGED <<variant, apiKey, remoteKeys, fetchLog, cookie, now, matched, csv, issued>>

\* The response has been written: the worker is released.
Finish(w) ==
    /\ req[w].pc = "done"
    /\ req' = [req EXCEPT ![w] = IdleReq]
    /\ UNCHANGED <<variant, apiKey, remoteKeys, fetchLog, cookie, now, matched, csv, issued>>

\* The issuer publishes another key document.
RotateKeys(ks) ==
    /\ variant = "jwks"
    /\ Quiet
    /\ ks # remoteKeys
    /\ remoteKeys' = ks
    /\ UNCHANGED <<variant, apiKey, req, fetchLog, cookie, now, matched, csv, issued>>

Tick ==
    /\ variant # "static"
    /\ Quiet
    /\ now < MaxTime
    /\ now' = now + 1
    /\ UNCHANGED <<variant, apiKey, req, remoteKeys, fetchLog, cookie, matched, csv, issued>>

StaticNext ==
    \/ \E w \in Workers, h \in StaticHeaders(apiKey) : StaticRequest(w, h)
    \/ \E w \in Workers, arg \in CountArgs : McpHandler(w, arg)
    \/ \E w \in Workers : Finish(w)

JwksNext ==
    \/ \E w \in Workers, h \in JwksHeaders : JwksRequest(w, h)
    \/ \E w \in Workers, ok \in BOOLEAN : JwksFetchReturn(w, ok)
    \/ \E w \in Workers, arg \in CountArgs : McpHandler(w, arg)
    \/ \E w \in Workers : Finish(w)
    \/ \E ks \in RemoteSets : RotateKeys(ks)
    \/ Tick

SessionNext ==
    \/ \E w \in Workers, getOK \in BOOLEAN : SessionRequest(w, getOK)
    \/ \E w \in Workers, getOK \in BOOLEAN, st \in StateValues,
          outcome \in {"ok", "rand_failed", "save_failed"} :
            LoginRequest(w, getOK, st, outcome)
    \/ \E w \in Workers, getOK \in BOOLEAN, q \in QueryStates :
            CallbackRequest(w, getOK, q)
    \/ \E w \in Workers, outcome \in {"ok", "exchange_failed", "save_failed"},
          expiry \in {0, now + 1} : ExchangeReturn(w, outcome, expiry)
    \/ \E w \in Workers, arg \in CountArgs : McpHandler(w, arg)
    \/ \E w \in Workers : Finish(w)
    \/ Tick

Next ==
    \/ /\ variant = "static"
       /\ \E w \in Workers, h \in StaticHeaders(apiKey) : StaticRequest(w, h)
    \/ /\ variant = "jwks"
       /\ \E w \in Workers, h \in JwksHeaders : JwksRequest(w, h)
    \/ \E w \in Workers, ok \in BOOLEAN : JwksFetchReturn(w, ok)
    \/ \E w \in Workers, getOK \in BOOLEAN : SessionRequest(w, getOK)
    \/ \E w \in Workers, getOK \in BOOLEAN, st \in StateValues,
          outcome \in {"ok", "rand_failed", "save_failed"} :
            LoginRequest(w, getOK, st, outcome)
    \/ \E w \in Workers, getOK \in BOOLEAN, q \in QueryStates :
            CallbackRequest(w, getOK, q)
    \/ \E w \in Workers, outcome \in {"ok", "exchange_failed", "save_failed"},
          expiry \in {0, now + 1} : ExchangeReturn(w, outcome, expiry)
    \/ \E w \in Workers, arg \in CountArgs : McpHandler(w, arg)
    \/ \E w \in Workers : Finish(w)
    \/ \E ks \in RemoteSets : RotateKeys(ks)
    \/ Tick

\* Any of the three builds.
Spec == Init /\ [][Next]_vars

\* One build each.
\* The server's own steps are taken when they can be: a handler that can
\* run runs, a written response is released.  Nothing is assumed of the
\* remote services: jwk.Fetch and conf.Exchange are called with
\* context.Background() and the default HTTP client, which set no deadline,
\* so no step of the server ends a call the remote side never answers.
LiveSpec ==
    /\ Spec
    /\ WF_vars(\E w \in Workers : Finish(w))
    /\ WF_vars(\E w \in Workers, arg \in CountArgs : McpHandler(w, arg))

StaticInit == Init /\ variant = "static"
JwksInit == Init /\ variant = "jwks"
SessionInit == Init /\ variant = "session"

StaticSpec == StaticInit /\ [][StaticNext]_vars
JwksSpec == JwksInit /\ [][JwksNext]_vars
SessionSpec == SessionInit /\ [][SessionNext]_vars

----------------------------------------------------------------------------
(* Properties *)

\* The request was handed to the MCP handler (c.Next()).
Passed(rq) == rq.route = "mcp" /\ ~rq.aborted /\ rq.pc \in {"handler", "done"}

\* The request was answered by the middleware and the chain stopped.
RejectedWith(rq, code, msg) ==
    /\ rq.pc = "done" /\ rq.aborted
    /\ rq.status = code /\ rq.error = msg
    /\ rq.storeReads = 0

McpRequests == {w \in Workers : req[w].route = "mcp"}

\* C1: static key build: a request with header "Bearer <token>" is passed to
\* the MCP handler if and only if <token> equals the configured key, byte
\* for byte; with any other token, one of the key's length included, it is
\* answered 401 "Invalid API Key".
C1_StaticKeyExact ==
    variant = "static" =>
        \A w \in McpRequests : \A t \in StaticTokens :
            req[w].header = BearerHeader(t) =>
                IF t = apiKey
                THEN Passed(req[w]) /\ req[w].status # StatusUnauthorized
                ELSE RejectedWith(req[w], StatusUnauthorized, InvalidAPIKey)

\* A request with a token of the key's length that differs from the key has
\* been turned away.
C1_Witness ==
    /\ variant = "static"
    /\ \E w \in Workers : \E t \in StaticTokens :
           /\ t # apiKey /\ Len(t) = Len(apiKey)
           /\ req[w].header = BearerHeader(t)
           /\ RejectedWith(req[w], StatusUnauthorized, InvalidAPIKey)

\* C2: in every build a request the authenticator answered 401 is finished:
\* it is never handed to the MCP handler and the record store is never read
\* for it.
C2_RejectedIsTerminal ==
    \A w \in McpRequests :
        req[w].status = StatusUnauthorized =>
            /\ req[w].pc = "done"
            /\ req[w].aborted
            /\ req[w].storeReads = 0

\* The JWKS build has turned a token away after its fetch, and the tool
\* function has not run for it.
C2_Witness ==
    /\ variant = "jwks"
    /\ \E w \in Workers :
           /\ RejectedWith(req[w], StatusUnauthorized, InvalidToken)
           /\ req[w].fetches = 1
           /\ req[w].toolRuns = 0

\* The token of a "Bearer <token>" header.
BearerTokenOf(h) == SubSeq(h, Len(Bearer) + 2, Len(h))

ExpChars == {NoExp} \cup {Digits[i] : i \in 1..Len(Digits)}

\* C3: JWKS build: a request is passed on only if its token is an RS256 token
\* signed, over its own header and claims, by an RSA key of the fetched key
\* set whose key id is the one the token's header names.
C3_AcceptedOnlyWithNamedRSAKey ==
    \A w \in McpRequests :
        (variant = "jwks" /\ Passed(req[w])) =>
            \E k \in req[w].keySet : \E e \in ExpChars :
                /\ k.kty = "RSA"
                /\ req[w].header = BearerHeader(SignedJWT(AlgRS, k.kid, e, k.mat))

\* A token signed by the issuer's RSA key was accepted while the fetched set
\* also held the EC key.
C3_Witness ==
    \E w \in McpRequests :
        /\ variant = "jwks" /\ Passed(req[w])
        /\ req[w].header = BearerHeader(GoodRS)
        /\ req[w].keySet = {KeyRSA1, KeyEC2}

\* The key ids of a key set.
Kids(keySet) == {k.kid : k \in keySet}

\* C4: JWKS build: every token whose header names a symmetric algorithm is
\* answered 401 "Invalid token", and no key was looked up for it.
C4_SymmetricAlwaysInvalid ==
    \A w \in McpRequests : \A t \in JwtTokens :
        (variant = "jwks" /\ req[w].pc = "done" /\ t[1] = AlgHS
            /\ req[w].header = BearerHeader(t)) =>
                /\ RejectedWith(req[w], StatusUnauthorized, InvalidToken)
                /\ req[w].lookups = 0

\* C5: JWKS build: a request whose RS256 token names a key id that the key
\* set does not hold is answered 401 "Invalid token" (key not found) after
\* exactly one fetch of the key document, and that answer is given in no
\* other case.
C5_OneFetchBeforeUnknownKey ==
    \A w \in McpRequests :
        (variant = "jwks" /\ req[w].pc = "done") =>
            /\ \A t \in JwtTokens :
                   (/\ req[w].header = BearerHeader(t)
                    /\ ~req[w].fetchFailed
                    /\ Len(Split(t, DOT)) = 3 /\ t[1] = AlgRS
                    /\ t[2] \notin Kids(req[w].keySet) \cup {NoKid}) =>
                        /\ RejectedWith(req[w], StatusUnauthorized, InvalidToken)
                        /\ req[w].details = KidNotFound
                        /\ req[w].fetches = 1
            /\ req[w].details = KidNotFound =>
                   /\ req[w].fetches = 1
                   /\ BearerTokenOf(req[w].header)[2] \notin Kids(req[w].keySet)

\* A token naming key id 2 was turned away against a document holding only
\* key id 1.
C5_Witness ==
    \E w \in McpRequests :
        /\ variant = "jwks"
        /\ req[w].header = BearerHeader(SignedJWT(AlgRS, "2", NoExp, "q"))
        /\ req[w].keySet = {KeyRSA1}
        /\ RejectedWith(req[w], StatusUnauthorized, InvalidToken)
        /\ req[w].details = KidNotFound

\* C6: once a key set holding key id k has been fetched, no request whose
\* token names k starts a fetch of the key document.
C6_NoFetchWhenCached ==
    [][\A w \in Workers :
          (req[w].pc = "idle" /\ req'[w].pc = "fetch" /\ fetchLog.ever) =>
              BearerTokenOf(req'[w].header)[2] \notin Kids(fetchLog.keys)]_vars

\* C7: at no time are two fetches of the key document in flight.
C7_SingleFetchInFlight ==
    Cardinality({w \in Workers : req[w].pc = "fetch"}) <= 1

\* C8: a request whose fetch failed is still accepted when its token is a
\* valid token of a key of the key set fetched before.
C8_StaleKeysStillAccepted ==
    \A w \in McpRequests :
        (/\ req[w].fetchFailed
         /\ fetchLog.ever
         /\ \E k \in fetchLog.keys : \E e \in ExpChars :
                /\ k.kty = "RSA"
                /\ req[w].header = BearerHeader(SignedJWT(AlgRS, k.kid, e, k.mat))
                /\ (e = NoExp \/ now < TimeOf(e))) =>
            Passed(req[w])

\* C9: a request whose key fetch (or session lookup) failed is answered 500
\* with its own message and is not handed to the MCP handler; every answer
\* that says the credential is bad is a 401, given only when that
\* dependency answered.
C9_ServiceFailureDistinct ==
    \A w \in McpRequests :
        /\ (req[w].fetchFailed \/ req[w].getFailed) =>
               /\ RejectedWith(req[w], StatusInternalServerError,
                               IF req[w].fetchFailed THEN FailedToFetchJWKS
                               ELSE FailedToGetSession)
               /\ ~Passed(req[w])
        /\ req[w].error \in {InvalidToken, NotAuthenticated, InvalidAPIKey} =>
               /\ req[w].status = StatusUnauthorized
               /\ ~req[w].fetchFailed /\ ~req[w].getFailed

\* The fetch failed for a request carrying a token the issuer signed.
C9_Witness ==
    \E w \in McpRequests :
        /\ req[w].fetchFailed
        /\ req[w].header = BearerHeader(GoodRS)
        /\ RejectedWith(req[w], StatusInternalServerError, FailedToFetchJWKS)

CallbackRequests == {w \in Workers : req[w].route = "callback"}

\* C10: a callback whose state parameter differs from the state the session
\* holds is answered 401 "Invalid state"; no exchange is made, the session
\* is not saved, and the cookie still holds the session as it was read,
\* its state included.
C10_MismatchLeavesSession ==
    \A w \in CallbackRequests :
        (~req[w].getFailed /\ req[w].qstate # req[w].session.state) =>
            /\ RejectedWith(req[w], StatusUnauthorized, InvalidState)
            /\ req[w].exchanges = 0
            /\ ~req[w].saved
            /\ cookie = req[w].session

\* After a login, a callback with another state was turned away and the
\* cookie still holds the login's state and no token.
C10_Witness ==
    \E w \in CallbackRequests :
        /\ req[w].qstate \in StateValues
        /\ cookie.state \in StateValues \ {req[w].qstate}
        /\ cookie.token = ""
        /\ RejectedWith(req[w], StatusUnauthorized, InvalidState)


\* C11: The CSRF state of a session is single use: once a callback has matched
\* the stored state, a later callback on the same session carrying the same
\* state, with no login in between, is rejected with a state mismatch.
C11_StateSingleUse ==
    [][\A w \in Workers :
          (/\ \A v \in Workers : req[v].pc = "idle"
           /\ req'[w].route = "callback"
           /\ ~req'[w].getFailed
           /\ matched # ""
           /\ req'[w].qstate = matched)
          => /\ req'[w].pc = "done"
             /\ req'[w].status = StatusUnauthorized
             /\ req'[w].error = InvalidState]_vars

\* C12: Of two callbacks that run at the same time on the same session cookie
\* with the same valid state, at most one passes the state check and reaches
\* the token exchange.
C12_OneConcurrentCallbackPasses ==
    \A v, w \in Workers :
        (/\ v # w
         /\ req[v].route = "callback" /\ req[w].route = "callback"
         /\ req[v].session = req[w].session
         /\ req[v].qstate = req[w].qstate
         /\ req[v].pc = "exchange")
        => req[w].exchanges = 0

\* A response to GET /auth/callback is written in this step by worker w.
CallbackEnds(w) ==
    req'[w].route = "callback" /\ req'[w].pc = "done" /\ req[w].pc # "done"

\* C13: Every callback ends in exactly one of two ways: the session is
\* updated with the token obtained and success is reported, or the session
\* is left as it was and an error is reported.  A failed exchange stores no
\* token and no partial state.
C13_CallbackAllOrNothing ==
    [][\A w \in Workers :
          CallbackEnds(w) =>
              \/ /\ req'[w].status = StatusOK
                 /\ req'[w].error = Authenticated
                 /\ ~req'[w].aborted
                 /\ cookie' = req'[w].session
                 /\ cookie'.token # ""
              \/ /\ req'[w].status \in {StatusUnauthorized, StatusInternalServerError}
                 /\ req'[w].aborted
                 /\ req'[w].error \in {FailedToGetSession, InvalidState,
                                       FailedToExchange, FailedToSave}
                 /\ cookie' = cookie]_vars

\* A callback whose exchange failed has answered, and the session still holds
\* the state it matched and no token.
C13_Witness ==
    \E w \in Workers :
        /\ req[w].route = "callback"
        /\ req[w].pc = "done"
        /\ req[w].error = FailedToExchange
        /\ req[w].exchanges = 1
        /\ cookie.state = req[w].qstate
        /\ cookie.token = ""

\* A callback that has answered after its session was read.
CallbackAnswered(rq) ==
    rq.route = "callback" /\ rq.pc = "done" /\ ~rq.getFailed

\* C14 as stated: the callback answers 200 with a confirmation on success and
\* 401 both when the state does not match and when the token exchange fails.
C14_ExchangeFailureIs401 ==
    \A w \in Workers :
        CallbackAnswered(req[w]) /\ req[w].error # FailedToSave =>
            \/ req[w].status = StatusOK /\ req[w].error = Authenticated
            \/ req[w].status = StatusUnauthorized
               /\ req[w].error \in {InvalidState, FailedToExchange}

\* C14: The callback answers 200 with a confirmation on success, 401 when the
\* state does not match, and 500 when the token exchange fails.
C14_CallbackStatusCodes ==
    \A w \in Workers :
        CallbackAnswered(req[w]) /\ req[w].error # FailedToSave =>
            \/ /\ req[w].status = StatusOK /\ req[w].error = Authenticated
               /\ req[w].exchanges = 1 /\ req[w].saved
            \/ /\ req[w].status = StatusUnauthorized /\ req[w].error = InvalidState
               /\ req[w].exchanges = 0
               /\ (req[w].session.state = "" \/ req[w].session.state # req[w].qstate)
            \/ /\ req[w].status = StatusInternalServerError
               /\ req[w].error = FailedToExchange
               /\ req[w].exchanges = 1 /\ ~req[w].saved

\* A callback whose state matched has been answered 500 after the exchange
\* failed.
C14_Witness ==
    \E w \in Workers :
        /\ CallbackAnswered(req[w])
        /\ req[w].session.state = req[w].qstate
        /\ req[w].exchanges = 1
        /\ req[w].status = StatusInternalServerError
        /\ req[w].aborted

\* The expiry stored with the session's token has passed at time t.
ExpiryPassed(sess, t) == sess.expiry # 0 /\ sess.expiry < t

\* An MCP request of the session build whose session has been read.
SessionChecked(rq) ==
    /\ variant = "session"
    /\ rq.route = "mcp"
    /\ rq.pc \in {"handler", "done"}
    /\ ~rq.getFailed

\* C15: session build: an MCP request is answered 401 "Not authenticated or
\* token expired. Please visit /auth/login" whenever its session is empty,
\* holds no token, or holds a token whose expiry has passed; it is passed to
\* the MCP handler only when the session holds a token that has not expired.
C15_SessionTokenRequired ==
    \A w \in Workers :
        SessionChecked(req[w]) =>
            /\ req[w].session = cookie
            /\ (req[w].session = NoSession
                \/ req[w].session.token = ""
                \/ ExpiryPassed(req[w].session, now))
               => RejectedWith(req[w], StatusUnauthorized, NotAuthenticated)
            /\ Passed(req[w])
               => /\ req[w].session.token # ""
                  /\ ~ExpiryPassed(req[w].session, now)

\* An MCP request on a session whose token has expired has been rejected.
C15_Witness ==
    \E w \in Workers :
        /\ SessionChecked(req[w])
        /\ req[w].session.token # ""
        /\ ExpiryPassed(req[w].session, now)
        /\ RejectedWith(req[w], StatusUnauthorized, NotAuthenticated)

\* Worker w takes an MCP request of the session build in this step.
SessionRequestBy(w) ==
    variant = "session" /\ req[w].pc = "idle" /\ req'[w].route = "mcp"

\* C16: the session authenticator only reads: an MCP request leaves the
\* session, its state and its token as they were and never renews an expired
\* token.  A request on a session whose token is no longer valid is
\* rejected, and the stored token changes only when a callback succeeds.
C16_MiddlewareReadOnly ==
    [][/\ \A w \in Workers :
             SessionRequestBy(w) =>
                 /\ cookie' = cookie
                 /\ ~req'[w].saved
                 /\ req'[w].session = cookie
                 /\ ExpiryPassed(cookie, now) /\ ~req'[w].getFailed
                    => RejectedWith(req'[w], StatusUnauthorized, NotAuthenticated)
       /\ (cookie'.token # cookie.token \/ cookie'.expiry # cookie.expiry)
          => \E w \in Workers :
                 /\ req[w].pc = "exchange"
                 /\ req'[w].route = "callback"
                 /\ req'[w].status = StatusOK]_vars

\* An MCP request has been rejected on a session whose token expired, and
\* the cookie still holds that expired token.
C16_Witness ==
    \E w \in Workers :
        /\ SessionChecked(req[w])
        /\ RejectedWith(req[w], StatusUnauthorized, NotAuthenticated)
        /\ cookie.token # ""
        /\ ExpiryPassed(cookie, now)
        /\ cookie = req[w].session
        /\ ~req[w].saved

\* An MCP request of a build that authenticates by the Authorization header.
HeaderChecked(rq) ==
    variant \in {"static", "jwks"} /\ rq.route = "mcp" /\ rq.pc # "idle"

\* C17: static key and JWKS builds: a request without an Authorization header
\* is answered 401 "Authorization header required", before any key is
\* fetched or compared.
C17_MissingHeaderRequired ==
    \A w \in Workers :
        HeaderChecked(req[w]) /\ req[w].header = EmptyStr =>
            /\ RejectedWith(req[w], StatusUnauthorized, AuthHeaderRequired)
            /\ req[w].fetches = 0

\* A request without the header has been rejected by the JWKS build.
C17_Witness ==
    \E w \in Workers :
        /\ variant = "jwks"
        /\ HeaderChecked(req[w])
        /\ req[w].header = EmptyStr
        /\ RejectedWith(req[w], StatusUnauthorized, AuthHeaderRequired)

\* The positions of the spaces of a header.
Spaces(h) == {i \in DOMAIN h : h[i] = SP}

\* The header is "Bearer", one space, and a part without a space.
WellFormed(h) ==
    /\ Cardinality(Spaces(h)) = 1
    /\ SubSeq(h, 1, (CHOOSE i \in Spaces(h) : TRUE) - 1) = Bearer

\* C18: static key and JWKS builds: a header that is present but does not
\* consist of exactly two space-separated parts, or whose first part is not
\* exactly "Bearer", is answered 401 "Invalid Authorization header format",
\* also when one of its parts is the configured key or a valid token.
C18_MalformedHeaderRejected ==
    \A w \in Workers :
        (/\ HeaderChecked(req[w])
         /\ req[w].header # EmptyStr
         /\ ~WellFormed(req[w].header)) =>
            /\ RejectedWith(req[w], StatusUnauthorized, AuthHeaderFormat)
            /\ req[w].fetches = 0

\* The static build has rejected as malformed a header of three parts whose
\* second part is the configured key.
C18_Witness ==
    \E w \in Workers :
        /\ variant = "static"
        /\ HeaderChecked(req[w])
        /\ req[w].header = Bearer \o <<SP>> \o apiKey \o <<SP>>
        /\ RejectedWith(req[w], StatusUnauthorized, AuthHeaderFormat)

\* A request of the JWKS build whose token has been parsed against a fetched
\* key set.  The handler runs and the worker is released before the clock
\* moves, so now is the time of the parse.
JwksParsed(rq) ==
    /\ variant = "jwks"
    /\ rq.route = "mcp"
    /\ rq.pc \in {"handler", "done"}
    /\ rq.fetches = 1 /\ ~rq.fetchFailed

\* An RS256 token of key id 1 with the given exp, signed by the RSA key.
IssuedWithExp(e) == BearerHeader(SignedJWT(AlgRS, KeyRSA1.kid, e, KeyRSA1.mat))

\* C19: JWKS build: a token whose exp claim is present and has passed is
\* rejected 401 and never reaches the MCP handler, with the reason "token is
\* expired" when its signature validates; a token without exp is not
\* rejected for its age.
C19_ExpiredTokenRejected ==
    \A w \in Workers :
        JwksParsed(req[w]) =>
            /\ \A e \in ExpChars \ {NoExp} :
                   (/\ Len(BearerTokenOf(req[w].header)) >= 4
                    /\ BearerTokenOf(req[w].header)[4] = e
                    /\ TimeOf(e) < now)
                   => RejectedWith(req[w], StatusUnauthorized, InvalidToken)
            /\ \A e \in ExpChars \ {NoExp} :
                   (/\ req[w].header = IssuedWithExp(e)
                    /\ KeyRSA1 \in req[w].keySet
                    /\ TimeOf(e) < now)
                   => req[w].details = "token is expired"
            /\ (req[w].header = IssuedWithExp(NoExp) /\ KeyRSA1 \in req[w].keySet)
               => Passed(req[w])

\* A correctly signed token whose exp has passed has been rejected as
\* expired.
C19_Witness ==
    \E w \in Workers :
        /\ JwksParsed(req[w])
        /\ req[w].header = IssuedWithExp("1")
        /\ KeyRSA1 \in req[w].keySet
        /\ TimeOf("1") < now
        /\ RejectedWith(req[w], StatusUnauthorized, InvalidToken)
        /\ req[w].details = "token is expired"

\* A tools/call that reached the MCP handler and has been answered.
ToolAnswered(rq) == Passed(rq) /\ rq.pc = "done"

\* The count argument was absent, zero or negative.
NotPositive(rq) ==
    rq.argKind = "missing" \/ (rq.argKind = "int" /\ rq.count <= 0)

ValidCountAnswered(rq) ==
    ToolAnswered(rq) /\ rq.argKind = "int" /\ rq.count >= 1

\* The lines of the file are not all of one width.
Ragged(file) ==
    \E i, j \in DOMAIN file.lines : Len(file.lines[i]) # Len(file.lines[j])

\* C21: when the record store fails during a tool call with a valid count
\* (the file cannot be opened or cannot be read), the answer is a successful
\* response whose text is "Error: failed to get records: " followed by the
\* cause, never a failure of the protocol.
C21_StoreFailureIsToolError ==
    \A w \in Workers :
        ValidCountAnswered(req[w]) =>
            /\ ~csv.exists
               => /\ req[w].status = StatusOK
                  /\ req[w].error = ErrorPrefix \o OpenError
                  /\ req[w].payload = EmptyStr
            /\ csv.exists /\ Ragged(csv)
               => /\ req[w].status = StatusOK
                  /\ req[w].error = ErrorPrefix \o ReadError
                  /\ req[w].payload = EmptyStr

\* A tools/call with count 1 on a file that cannot be opened has been
\* answered with the store's error inside a 200 response.
C21_Witness ==
    \E w \in Workers :
        /\ ValidCountAnswered(req[w])
        /\ ~csv.exists
        /\ req[w].storeReads = 1
        /\ req[w].status = StatusOK
        /\ req[w].error = "Error: failed to get records: could not open csv file"

Min(a, b) == IF a < b THEN a ELSE b

\* C22: for n >= 1 and a readable file of t records, the record store
\* returns exactly the last min(n, t) records in their original order: all
\* of them when n exceeds t, and an empty result, not an error, when the
\* file is empty.
C22_LastNRecords ==
    \A w \in Workers :
        (ValidCountAnswered(req[w]) /\ csv.exists /\ ~Ragged(csv)) =>
            LET t == Len(csv.lines)
                m == Min(req[w].count, t)
            IN /\ req[w].storeReads = 1
               /\ Len(req[w].rows) = m
               /\ \A k \in 1..m : req[w].rows[k] = csv.lines[t - m + k]
               /\ t = 0 => req[w].error = NoRecordsFound
               /\ t > 0 => req[w].error = ""

\* A call with count 2 on a file of three records has returned the second
\* and the third.
C22_Witness ==
    \E w \in Workers :
        /\ ValidCountAnswered(req[w])
        /\ req[w].count = 2
        /\ csv = CsvOf(<<Row(1), Row(2), Row(3)>>)
        /\ req[w].rows = <<Row(2), Row(3)>>

\* A call whose count exceeds the number of records has returned them all.
C22_AllRowsReached ==
    \E w \in Workers :
        /\ ValidCountAnswered(req[w])
        /\ req[w].count > Len(csv.lines)
        /\ Len(csv.lines) > 0
        /\ req[w].rows = csv.lines

RowsFrom0(file, lo, hi) ==
    [k \in 1..(Min(hi + 1, Len(file.lines)) - lo) |-> file.lines[lo + k]]

\* The static build runs with the key "abc123" on a file of ten records, and
\* a request with "Authorization: Bearer abc123" asking for count 2 has been
\* answered.
ExampleAnswered(rq) ==
    /\ variant = "static"
    /\ apiKey = ExampleKey
    /\ csv = CsvOf(Records(10))
    /\ rq.header = BearerHeader(ExampleKey)
    /\ ValidCountAnswered(rq)
    /\ rq.count = 2

\* C25 as stated: in the example the answer holds the records 9 and 10
\* counted from 0.
C25_ExampleRows9To10 ==
    \A w \in Workers :
        ExampleAnswered(req[w]) => req[w].rows = RowsFrom0(csv, 9, 10)

\* C25: in the example the answer holds the last two records, which are the
\* records 8 and 9 counted from 0 (the ninth and the tenth), the values of
\* each joined by a comma and the two joined by a newline.
C25_ExampleLastTwoRows ==
    \A w \in Workers :
        ExampleAnswered(req[w]) =>
            /\ req[w].status = StatusOK
            /\ req[w].rows = RowsFrom0(csv, 8, 9)
            /\ req[w].payload = <<"8", ",", "v", "\n", "9", ",", "v">>

\* The example request has been answered with two records.
C25_Witness ==
    \E w \in Workers :
        /\ ExampleAnswered(req[w])
        /\ Len(req[w].rows) = 2
        /\ req[w].storeReads = 1

\* C26: no operation blocks for ever: a request that waits for the key
\* document or for the token exchange is answered in the end, also when the
\* remote service never answers.
C26_RemoteCallsEnd ==
    \A w \in Workers :
        (req[w].pc \in {"fetch", "exchange"}) ~> (req[w].pc = "done")

\* An MCP request that the authenticator has refused, the failures of the
\* services it depends on apart.
AuthRejected(rq) ==
    /\ rq.route = "mcp" /\ rq.pc = "done" /\ rq.aborted
    /\ ~rq.fetchFailed /\ ~rq.getFailed

\* The messages the authenticators refuse with, one per category.
RejectionMessages ==
    {AuthHeaderRequired, AuthHeaderFormat, InvalidAPIKey, InvalidToken,
     NotAuthenticated}

\* C27: all three builds answer every refusal with the one status 401 and a
\* payload that holds the message of the category and nothing that tells
\* which check failed.
C27_UniformRejection ==
    \A w \in Workers :
        AuthRejected(req[w]) =>
            /\ req[w].status = StatusUnauthorized
            /\ req[w].error \in RejectionMessages
            /\ req[w].details = ""

\* The texts of the errors jwt.Parse returns.
ParserErrors ==
    {"token contains an invalid number of segments", "token is malformed",
     "signing method (alg) is unavailable", "signature is invalid",
     "token is expired"}

\* C28: every refusal carries a category and a readable message and nothing
\* else: no payload holds the text of an error of an underlying library.
C28_NoInternalDetails ==
    \A w \in Workers :
        (req[w].pc = "done" /\ req[w].aborted) =>
            req[w].details \notin ParserErrors

\* GET /auth/login has been answered.
LoginAnswered(rq) == rq.route = "login" /\ rq.pc = "done"

\* C29 as stated: a login that is not refused answers 302 Found.
C29_LoginAnswers302 ==
    \A w \in Workers :
        LoginAnswered(req[w]) /\ ~req[w].aborted => req[w].status = 302

\* C29: a login that is not refused answers 307 Temporary Redirect to the
\* provider's authorization URL, which carries the state just saved in the
\* session; a login answers a redirect in no other case.
C29_LoginRedirects307 ==
    \A w \in Workers :
        LoginAnswered(req[w]) =>
            /\ ~req[w].aborted => req[w].status = StatusTemporaryRedirect
            /\ req[w].status = StatusTemporaryRedirect
               => /\ req[w].saved
                  /\ req[w].qstate \in StateValues
                  /\ cookie.state = req[w].qstate
            /\ req[w].aborted => req[w].status = StatusInternalServerError

\* A login has been answered with the redirect.
C29_Witness ==
    \E w \in Workers :
        /\ LoginAnswered(req[w])
        /\ req[w].status = StatusTemporaryRedirect
        /\ cookie.state = req[w].qstate

\* C30: static key build: the comparison of the presented token with the
\* key takes the same time wherever the first differing byte is: for a token
\* of the key's length every byte is examined.
C30_ConstantTimeCompare ==
    \A w \in Workers :
        (/\ variant = "static"
         /\ req[w].route = "mcp"
         /\ req[w].pc \in {"handler", "done"}
         /\ \E t \in StaticTokens :
                Len(t) = Len(apiKey) /\ req[w].header = BearerHeader(t))
        => req[w].examined = Len(apiKey)

\* C31: login stores a newly generated state in the session and redirects
\* with that same state in the URL: right after a successful login the state
\* in the session cookie equals the state of the redirect, so a callback
\* that carries the redirect's state passes the state check.
C31_LoginStateMatchesRedirect ==
    \A w \in Workers :
        (LoginAnswered(req[w]) /\ ~req[w].aborted) =>
            /\ req[w].qstate \in StateValues
            /\ req[w].session.state = req[w].qstate
            /\ cookie = req[w].session
            /\ ~CallbackCheck([IdleReq EXCEPT !.route = "callback",
                                              !.session = cookie,
                                              !.qstate = req[w].qstate],
                              TRUE).aborted

\* After a login, a callback carrying the state of the redirect has passed
\* the state check and waits for the token exchange.
C31_Witness ==
    \E w \in Workers :
        /\ req[w].route = "callback"
        /\ req[w].pc = "exchange"
        /\ req[w].qstate = cookie.state
        /\ req[w].session = cookie
        /\ cookie.token = ""

\* C32: when authentication succeeds the validated credential is put in the
\* request's context before the MCP handler runs: the validated claims in
\* the JWKS build, the session's token in the session build.
C32_CredentialInContext ==
    \A w \in Workers :
        (variant \in {"jwks", "session"} /\ Passed(req[w])) => req[w].ctxSet

\* The session gains a token in this step.
TokenAppears == cookie.token = "" /\ cookie'.token # ""

\* Worker w ends, in this step, a callback that had matched the stored state
\* and whose exchange succeeded.
CallbackSucceeds(w) ==
    /\ req[w].route = "callback"
    /\ req[w].pc = "exchange"
    /\ req[w].session.state # ""
    /\ req[w].session.state = req[w].qstate
    /\ req'[w].pc = "done"
    /\ req'[w].status = StatusOK
    /\ ~req'[w].aborted

\* C33: session build: the session starts without a token and gains one
\* only in the step in which a callback that matched the stored state ends
\* with a successful exchange; so an MCP request is passed to the handler
\* only on a session that holds a token from such a callback.
C33_TokenOnlyFromCallback ==
    /\ cookie.token = ""
    /\ [][TokenAppears => \E w \in Workers : CallbackSucceeds(w)]_vars
    /\ [](\A w \in Workers :
             (variant = "session" /\ Passed(req[w]))
                 => req[w].session.token # "" /\ cookie.token # "")

\* An MCP request has been passed on a session whose token a callback
\* stored.
C33_Witness ==
    \E w \in Workers :
        /\ variant = "session"
        /\ Passed(req[w])
        /\ req[w].pc = "handler"
        /\ cookie.token = "tok"
        /\ cookie.state \in StateValues

\* C34: a callback on a session that holds no state (no login has stored
\* one) is always rejected 401 "Invalid state" and starts no token
\* exchange, whatever state the query carries, the empty or absent one
\* included.
C34_NoStoredStateRejected ==
    \A w \in Workers :
        (/\ req[w].route = "callback"
         /\ ~req[w].getFailed
         /\ req[w].session.state = "") =>
            /\ RejectedWith(req[w], StatusUnauthorized, InvalidState)
            /\ req[w].exchanges = 0
            /\ ~req[w].saved

\* A callback without a state parameter on a session without a state has
\* been rejected.
C34_Witness ==
    \E w \in Workers :
        /\ req[w].route = "callback"
        /\ ~req[w].getFailed
        /\ req[w].session = NoSession
        /\ req[w].qstate = ""
        /\ RejectedWith(req[w], StatusUnauthorized, InvalidState)

\* C35: each login overwrites the state stored in the session: after two
\* logins that generated different states a callback carrying the first
\* state is rejected, and a callback passes the state check only with the
\* state of the most recent login.
C35_OnlyLatestStatePasses ==
    [][\A w \in Workers :
          (/\ req[w].pc = "idle"
           /\ req'[w].route = "callback"
           /\ req'[w].pc = "exchange")
          => req'[w].qstate = issued]_vars

\* The start index GetLastNRecords computes before it is clamped at 0.
StartIndex(totalRecords, n) == totalRecords - n

\* C36: the tool function calls the record store only with a count of at
\* least 1: for a count that is zero, negative or missing (decoded as 0)
\* GetLastNRecords is not called, so its start index is never beyond the
\* number of records and the slice it takes is within bounds.
C36_StoreCalledWithPositiveCount ==
    \A w \in Workers :
        ToolAnswered(req[w]) =>
            /\ NotPositive(req[w]) => req[w].storeReads = 0 /\ req[w].rows = <<>>
            /\ req[w].storeReads > 0
               => /\ req[w].argKind = "int"
                  /\ req[w].count >= 1
                  /\ StartIndex(Len(csv.lines), req[w].count) <= Len(csv.lines)
                  /\ Len(req[w].rows) <= Len(csv.lines)

\* A call without a count has been answered without the record store
\* being read.
C36_Witness ==
    \E w \in Workers :
        /\ ToolAnswered(req[w])
        /\ req[w].argKind = "missing"
        /\ req[w].count = 0
        /\ req[w].toolRuns = 1
        /\ req[w].storeReads = 0

\* C37: static key build: the server never serves with an empty key, so a
\* request whose header is "Bearer " followed by an empty token is never
\* authenticated: it is answered 401 "Invalid API Key".
C37_EmptyTokenNeverAccepted ==
    variant = "static" =>
        /\ apiKey # EmptyStr
        /\ \A w \in Workers :
               (req[w].route = "mcp" /\ req[w].header = BearerHeader(EmptyStr))
               => /\ RejectedWith(req[w], StatusUnauthorized, InvalidAPIKey)
                  /\ req[w].toolRuns = 0

\* A request with the header "Bearer " has been answered 401.
C37_Witness ==
    \E w \in Workers :
        /\ variant = "static"
        /\ req[w].route = "mcp"
        /\ req[w].header = <<"B", "e", "a", "r", "e", "r", " ">>
        /\ RejectedWith(req[w], StatusUnauthorized, InvalidAPIKey)

\* The header is missing or is not "Bearer", one space and a token.
BadHeader(h) == h = EmptyStr \/ ~WellFormed(h)

\* C38: JWKS build: a request whose Authorization header is missing or
\* malformed is rejected before the key document is fetched: it is answered
\* 401 in the step in which it arrives, no fetch is started for it, and a
\* request that waits for a fetch has a well-formed header.
C38_NoFetchForBadHeader ==
    /\ [](\A w \in Workers :
             (variant = "jwks" /\ req[w].fetches > 0) => ~BadHeader(req[w].header))
    /\ [][\A w \in Workers :
             (/\ variant = "jwks"
              /\ req[w].pc = "idle"
              /\ req'[w].route = "mcp"
              /\ BadHeader(req'[w].header))
             => /\ req'[w].pc = "done"
                /\ req'[w].status = StatusUnauthorized
                /\ req'[w].fetches = 0
                /\ fetchLog' = fetchLog]_vars

\* The JWKS build has rejected a malformed header that holds a valid token,
\* and no key document has ever been fetched.
C38_Witness ==
    \E w \in Workers :
        /\ variant = "jwks"
        /\ req[w].header = Bearer \o GoodRS
        /\ RejectedWith(req[w], StatusUnauthorized, AuthHeaderFormat)
        /\ req[w].fetches = 0
        /\ ~fetchLog.ever

\* A header "Bearer <token>" whose token has three segments and a header
\* segment of an algorithm and a key id.
JwtShaped(h) ==
    /\ WellFormed(h)
    /\ LET parts == Split(BearerTokenOf(h), DOT) IN
       Len(parts) = 3 /\ Len(parts[1]) = 2

\* The algorithm and the key id of such a token.
AlgOf(h) == Split(BearerTokenOf(h), DOT)[1][1]
KidOf(h) == Split(BearerTokenOf(h), DOT)[1][2]

\* C39: JWKS build: a token whose header carries no string key id is
\* rejected 401 "Invalid token" and never reaches the MCP handler, whatever
\* keys were fetched: no key is looked up for it and none verifies it, and an
\* RS256 token is told "kid header not found".  The keys the key function
\* hands to the verification, and the keys a passed token was verified with,
\* all carry the key id the token names.
C39_NoKidNeverVerified ==
    \A w \in Workers :
        (JwksParsed(req[w]) /\ JwtShaped(req[w].header)) =>
            /\ KidOf(req[w].header) = NoKid =>
                  /\ RejectedWith(req[w], StatusUnauthorized, InvalidToken)
                  /\ req[w].pc = "done"
                  /\ req[w].toolRuns = 0
                  /\ req[w].lookups = 0
                  /\ req[w].verifiedWith = {}
                  /\ (AlgOf(req[w].header) = AlgRS
                        => req[w].details = KidHeaderNotFound)
            /\ \A k \in KeyFunc(AlgOf(req[w].header), KidOf(req[w].header),
                                req[w].keySet).keys \cup req[w].verifiedWith :
                  /\ k \in req[w].keySet
                  /\ k.kid = KidOf(req[w].header)

\* An RS256 token without a key id, signed by the RSA key, has been rejected
\* with "kid header not found" while that key was in the fetched set.
C39_Witness ==
    \E w \in Workers :
        /\ JwksParsed(req[w])
        /\ req[w].header = BearerHeader(SignedJWT(AlgRS, NoKid, NoExp, KeyRSA1.mat))
        /\ KeyRSA1 \in req[w].keySet
        /\ RejectedWith(req[w], StatusUnauthorized, InvalidToken)
        /\ req[w].details = KidHeaderNotFound
        /\ req[w].lookups = 0

============================================================================
